---- MODULE Spec2Model ----
(***************************************************************************)
(* Model of src/utils.ts: extractFileNames (entry-point resolution), run   *)
(* (compile and print diagnostics), getSourceFiles, getTypescriptConfig    *)
(* and makeDefaultTypescriptConfig.                                        *)
(*                                                                         *)
(* Strings the code takes apart (handlers, paths) are sequences of         *)
(* one-character strings, so that split, lastIndexOf, substring, endsWith  *)
(* and the /\.js$/ replacement are computed as the code computes them.     *)
(***************************************************************************)
EXTENDS Integers, Sequences, FiniteSets, TLC

VARIABLES
    disk,       \* files that exist under cwd (paths relative to cwd)
    pkg,        \* <cwd>/package.json: missing, unparsable, or its main field
    functions,  \* _.values(functions): the handler strings in mapping order
    res,        \* extractFileNames: outcome of the last call, per provider
    heap,       \* the CompilerOptions objects alive, by identity (index)
    engine,     \* what the compilation engine reports for the project
    last        \* the last call of run / getSourceFiles / getTypescriptConfig

vars == <<disk, pkg, functions, res, heap, engine, last>>

\* ---- bounds ----
MaxFns == 2         \* handlers in one mapping
MaxDiags == 2       \* diagnostics the engine reports (pre-emit + emit-time)
MaxEmitted == 2     \* paths in the engine's emitted-file list
MaxObjs == 2        \* CompilerOptions objects created in one behaviour

\* ---- strings ----
SeqsUpTo(S, n) == UNION {[1..k -> S] : k \in 0..n}

\* JavaScript truthiness of a string: every string but "" is truthy
Truthy(v) == v # <<>>

\* h.split(".")
RECURSIVE SplitFrom(_, _, _)
SplitFrom(h, i, cur) ==
    IF i > Len(h) THEN <<cur>>
    ELSE IF h[i] = "." THEN <<cur>> \o SplitFrom(h, i + 1, <<>>)
    ELSE SplitFrom(h, i + 1, Append(cur, h[i]))

Split(h) == SplitFrom(h, 1, <<>>)

\* _.last(array), of the never-empty array that split returns
Last(s) == s[Len(s)]

\* h.indexOf(s): first 0-based position where s occurs in h, else -1
IndexOf(h, s) ==
    LET hits == {i \in 0..(Len(h) - Len(s)) : SubSeq(h, i + 1, i + Len(s)) = s}
    IN  IF hits = {} THEN -1 ELSE CHOOSE i \in hits : \A j \in hits : i <= j

\* h.lastIndexOf(s): last 0-based position where s occurs in h, else -1
LastIndexOf(h, s) ==
    LET hits == {i \in 0..(Len(h) - Len(s)) : SubSeq(h, i + 1, i + Len(s)) = s}
    IN  IF hits = {} THEN -1 ELSE CHOOSE i \in hits : \A j \in hits : j <= i

\* h.substring(0, n)
Substring0(h, n) == SubSeq(h, 1, IF n < 0 THEN 0 ELSE n)

\* s.endsWith(suffix)
EndsWith(s, suffix) ==
    /\ Len(s) >= Len(suffix)
    /\ SubSeq(s, Len(s) - Len(suffix) + 1, Len(s)) = suffix

DotJs == <<".", "j", "s">>
DotTs == <<".", "t", "s">>
Ts == <<"t", "s">>
Js == <<"j", "s">>
IndexTs == <<"i", "n", "d", "e", "x", ".", "t", "s">>

\* main.replace(/\.js$/, ".ts")
ReplaceJsWithTs(main) ==
    IF EndsWith(main, DotJs)
    THEN SubSeq(main, 1, Len(main) - Len(DotJs)) \o DotTs
    ELSE main

\* fse.existsSync(path.join(cwd, rel)), rel a plain relative file name
ExistsSync(rel) == rel \in disk

\* ---- extractFileNames ----
Ok(files) == [kind |-> "return", value |-> files, console |-> <<>>]
Throw(err, lines) == [kind |-> "throw", error |-> err, console |-> lines]

\* ResolveHandler cutting the stem at the first occurrence of the name
ResolveHandlerFirstIndex(h) ==
    LET fnName == Last(Split(h)) IN
    IF ~Truthy(fnName) THEN Throw("HandlerNameUnresolvable", <<>>)
    ELSE LET fileName == Substring0(h, IndexOf(h, fnName)) IN
         IF ExistsSync(fileName \o Ts) THEN Ok(fileName \o Ts)
         ELSE IF ExistsSync(fileName \o Js) THEN Ok(fileName \o Js)
         ELSE Throw("HandlerFileMissing",
                    <<<<"Cannot locate handler - ", SubSeq(fileName, 1, Len(fileName) - 1), " not found">>>>)

\* the body of .map((h) => ...), lines 84-104, for one handler
ResolveHandler(h) ==
    LET fnName == Last(Split(h)) IN
    IF ~Truthy(fnName) THEN Throw("HandlerNameUnresolvable", <<>>)
    ELSE LET fileName == Substring0(h, LastIndexOf(h, fnName)) IN
         IF ExistsSync(fileName \o Ts) THEN Ok(fileName \o Ts)
         ELSE IF ExistsSync(fileName \o Js) THEN Ok(fileName \o Js)
         ELSE Throw("HandlerFileMissing",
                    <<<<"Cannot locate handler - ", SubSeq(fileName, 1, Len(fileName) - 1), " not found">>>>)

\* _.values(functions).map(fn => fn.handler).map(...): in order, the first
\* handler that throws aborts the whole map
RECURSIVE GenericPath(_)
GenericPath(hs) ==
    IF hs = <<>> THEN Ok(<<>>)
    ELSE LET r == ResolveHandler(Head(hs)) IN
         IF r.kind = "throw" THEN r
         ELSE LET rest == GenericPath(Tail(hs)) IN
              IF rest.kind = "throw" THEN rest
              ELSE Ok(<<r.value>> \o rest.value)

PkgMissing == [kind |-> "missing"]
PkgInvalid == [kind |-> "invalid"]
PkgNoMain == [kind |-> "object", hasMain |-> FALSE, main |-> <<>>]
PkgWith(main) == [kind |-> "object", hasMain |-> TRUE, main |-> main]

\* GooglePath without the .js -> .ts rewrite of main
GooglePathNoRewrite ==
    IF pkg.kind = "invalid" THEN Throw("ManifestParseError", <<>>)
    ELSE LET main == IF pkg.hasMain /\ Truthy(pkg.main) THEN pkg.main ELSE IndexTs IN
         IF ~ExistsSync(main)
         THEN Throw("ManifestEntrypointMissing",
                    <<<<"Cannot locate entrypoint, ", main, " not found">>>>)
         ELSE Ok(<<main>>)

\* lines 66-78: the manifest exists
GooglePath ==
    IF pkg.kind = "invalid" THEN Throw("ManifestParseError", <<>>)
    ELSE LET main == IF pkg.hasMain /\ Truthy(pkg.main) THEN ReplaceJsWithTs(pkg.main) ELSE IndexTs IN
         IF ~ExistsSync(main)
         THEN Throw("ManifestEntrypointMissing",
                    <<<<"Cannot locate entrypoint, ", main, " not found">>>>)
         ELSE Ok(<<main>>)

\* extractFileNames taking the manifest branch for every "google" call
extractFileNamesAlwaysGoogle(provider, hs) ==
    IF provider = "google"
    THEN IF pkg.kind # "missing" THEN GooglePath ELSE Throw("ManifestEntrypointMissing", <<>>)
    ELSE GenericPath(hs)

\* lines 51-105
extractFileNames(provider, hs) ==
    IF provider = "google" /\ pkg.kind # "missing"
    THEN GooglePath
    ELSE GenericPath(hs)

\* ---- inputs of the entry-point resolver ----
Handlers ==
    { <<"h">>,                       \* "h": no '.' at all
      <<"a", ".", "h">>,             \* "a.h"
      <<"h", ".", "h">>,             \* "h.h": the name recurs as the stem
      <<"a", ".", "b", ".", "h">>,   \* "a.b.h": a '.' inside the stem
      <<"a", ".">>,                  \* "a.": nothing after the last '.'
      <<>> }                         \* ""

Files ==
    { <<"a", ".", "t", "s">>, <<"a", ".", "j", "s">>, <<"h", ".", "t", "s">>,
      <<"a", ".", "b", ".", "t", "s">>, Ts, IndexTs }

Mains ==
    { <<>>, <<"a", ".", "j", "s">>, <<"a", ".", "t", "s">>,
      <<"a", ".", "j", "s", "x">> }

Providers == {"google", "aws"}

NotCalled == [kind |-> "none"]

InitEntry ==
    /\ disk \in SUBSET Files
    /\ pkg \in {PkgMissing, PkgInvalid, PkgNoMain} \cup {PkgWith(m) : m \in Mains}
    /\ functions \in SeqsUpTo(Handlers, MaxFns)
    /\ res = [p \in Providers |-> NotCalled]
    /\ heap = <<>>
    /\ engine = NotCalled
    /\ last = NotCalled

ExtractFileNames(provider) ==
    /\ res[provider] = NotCalled
    /\ res' = [res EXCEPT ![provider] = extractFileNames(provider, functions)]
    /\ UNCHANGED <<disk, pkg, functions, heap, engine, last>>

NextEntry == \E provider \in Providers : ExtractFileNames(provider)

SpecEntry == InitEntry /\ [][NextEntry]_vars

\* ---- CompilerOptions ----
Unset == "unset"

\* makeDefaultTypescriptConfig, lines 19-49 (of the attributes that are all
\* `true`, strict and sourceMap stand for the rest); a fresh value per call
makeDefaultTypescriptConfig ==
    [ module |-> "CommonJS", target |-> "ES5", lib |-> <<"ES2020">>,
      rootDir |-> "./", strict |-> "true", sourceMap |-> "true",
      listEmittedFiles |-> Unset ]

\* ---- the compilation engine ----
FileName == <<"f", ".", "t", "s">>

\* offsets at which the lines of the source file FileName start
LineStarts == <<0, 3>>

\* diagnostic.file.getLineAndCharacterOfPosition(start), 0-based
LineAndCharacter(pos) ==
    LET l == CHOOSE i \in 1..Len(LineStarts) :
                /\ LineStarts[i] <= pos
                /\ \A j \in 1..Len(LineStarts) : LineStarts[j] <= pos => j <= i
    IN  [line |-> l - 1, character |-> pos - LineStarts[l]]

Diag(hasFile, hasStart, start) ==
    [hasFile |-> hasFile, hasStart |-> hasStart, start |-> start, messageText |-> "m"]

Diagnostics ==
    { Diag(FALSE, TRUE, 4), Diag(TRUE, FALSE, 0),
      Diag(TRUE, TRUE, 0), Diag(TRUE, TRUE, 1), Diag(TRUE, TRUE, 4) }

EmittedPaths ==
    { <<"a", ".", "j", "s">>, <<"a", ".", "j", "s", ".", "m", "a", "p">>,
      <<"a", ".", "d", ".", "t", "s">> }

\* what getPreEmitDiagnostics(program) and program.emit() report: at most
\* MaxDiags diagnostics in all, and no emitted file when emission is skipped
Engines ==
    UNION { UNION { { [pre |-> p, emit |-> e, emitSkipped |-> TRUE, emitted |-> <<>>,
                       sources |-> <<FileName>>] }
                    \cup
                    { [pre |-> p, emit |-> e, emitSkipped |-> FALSE, emitted |-> em,
                       sources |-> <<FileName>>] :
                        em \in SeqsUpTo(EmittedPaths, MaxEmitted) } :
                    e \in SeqsUpTo(Diagnostics, MaxDiags - Len(p)) } :
            p \in SeqsUpTo(Diagnostics, MaxDiags) }

\* emitResult.emittedFiles: the engine lists the emitted files only when
\* listEmittedFiles is on
EmittedFiles(eng, options) ==
    IF options.listEmittedFiles = "true"
    THEN [defined |-> TRUE, files |-> eng.emitted]
    ELSE [defined |-> FALSE, files |-> <<>>]

\* ---- run ----
\* line 116: diagnostic.file && diagnostic.start
Printable(d) == d.hasFile /\ d.hasStart /\ d.start # 0

\* lines 117-119: the line printed for one diagnostic
FormatLine(d) ==
    LET lc == LineAndCharacter(d.start) IN
    [file |-> FileName, line |-> lc.line + 1, col |-> lc.character + 1,
     message |-> d.messageText]

RECURSIVE PrintAll(_)
PrintAll(ds) ==
    IF ds = <<>> THEN <<>>
    ELSE (IF Printable(Head(ds)) THEN <<FormatLine(Head(ds))>> ELSE <<>>)
         \o PrintAll(Tail(ds))

LogEvent(l) == [ev |-> "log", line |-> l]
ThrowEvent == [ev |-> "throw"]
ReturnEvent == [ev |-> "return"]

\* filename.includes(".js") in the place of endsWith
IsJsAnywhere(filename) == IndexOf(filename, DotJs) >= 0

\* line 127: filename.endsWith(".js")
IsJs(filename) == EndsWith(filename, DotJs)

\* run that also fails when any diagnostic was reported
runFailOnDiagnostics(options, eng) ==
    LET opts == [options EXCEPT !.listEmittedFiles = "true"]
        emittedFiles == EmittedFiles(eng, opts)
        allDiagnostics == eng.pre \o eng.emit
        console == PrintAll(allDiagnostics)
        logs == [i \in 1..Len(console) |-> LogEvent(console[i])]
    IN  IF eng.emitSkipped \/ allDiagnostics # <<>>
        THEN [options |-> opts, console |-> console, kind |-> "throw",
              error |-> "CompilationFailedError",
              trace |-> logs \o <<ThrowEvent>>]
        ELSE [options |-> opts, console |-> console, kind |-> "return",
              value |-> [defined |-> emittedFiles.defined,
                         files |-> SelectSeq(emittedFiles.files, IsJs)],
              trace |-> logs \o <<ReturnEvent>>]

\* run, lines 107-128
run(options, eng) ==
    LET opts == [options EXCEPT !.listEmittedFiles = "true"]
        emittedFiles == EmittedFiles(eng, opts)
        allDiagnostics == eng.pre \o eng.emit
        console == PrintAll(allDiagnostics)
        logs == [i \in 1..Len(console) |-> LogEvent(console[i])]
    IN  IF eng.emitSkipped
        THEN [options |-> opts, console |-> console, kind |-> "throw",
              error |-> "CompilationFailedError",
              trace |-> logs \o <<ThrowEvent>>]
        ELSE [options |-> opts, console |-> console, kind |-> "return",
              value |-> [defined |-> emittedFiles.defined,
                         files |-> SelectSeq(emittedFiles.files, IsJs)],
              trace |-> logs \o <<ReturnEvent>>]

Run(obj) ==
    /\ obj \in 1..Len(heap)
    /\ LET r == run(heap[obj], engine) IN
       /\ heap' = [heap EXCEPT ![obj] = r.options]
       /\ last' = [op |-> "run", obj |-> obj, before |-> heap[obj], result |-> r]
    /\ UNCHANGED <<disk, pkg, functions, res, engine>>

\* getSourceFiles, lines 133-137
GetSourceFiles(obj) ==
    /\ obj \in 1..Len(heap)
    /\ last' = [op |-> "getSourceFiles", obj |-> obj, before |-> heap[obj],
                result |-> [kind |-> "return", value |-> engine.sources]]
    /\ UNCHANGED <<disk, pkg, functions, res, heap, engine>>

\* options objects a caller hands to run without the Config Resolver
CallerOptions ==
    { [makeDefaultTypescriptConfig EXCEPT !.listEmittedFiles = l] :
        l \in {Unset, "true", "false"} }

InitRun ==
    /\ disk = {}
    /\ pkg = PkgMissing
    /\ functions = <<>>
    /\ res = [p \in Providers |-> NotCalled]
    /\ heap \in {<<o>> : o \in CallerOptions}
    /\ engine \in Engines
    /\ last = NotCalled

NextRun ==
    \/ \E obj \in 1..MaxObjs : Run(obj)
    \/ \E obj \in 1..MaxObjs : GetSourceFiles(obj)

SpecRun == InitRun /\ [][NextRun]_vars

\* ---- getTypescriptConfig ----
\* process.cwd(), against which path.resolve resolves a relative path
ProcessCwd == "/proj"

Dirs == {"./", "/proj", "/other"}

\* path.resolve(dir)
Resolve(dir) == IF dir = "./" THEN ProcessCwd ELSE dir

CfgMissing == [kind |-> "missing", rootDir |-> Unset]
CfgBadJson == [kind |-> "badjson", rootDir |-> Unset]
CfgInvalid == [kind |-> "invalid", rootDir |-> Unset]
CfgValid(rootDir) == [kind |-> "valid", rootDir |-> rootDir]

\* the config file at <cwd>/<tsconfigFilePath>: absent, not parsable, with
\* option errors, or valid with or without a rootDir
ConfigFiles ==
    {CfgMissing, CfgBadJson, CfgInvalid} \cup {CfgValid(r) : r \in Dirs \cup {Unset}}

\* configParseResult.options of a valid file (line 153)
ParsedOptions(cfg) ==
    [ module |-> Unset, target |-> Unset, lib |-> <<>>,
      rootDir |-> cfg.rootDir, strict |-> "true", sourceMap |-> Unset,
      listEmittedFiles |-> Unset ]

UsingLocal == "Using local tsconfig.json"
RootDirWarning == "Warning: \"rootDir\" from local tsconfig.json is overriden"

Returned(h, options, logs) ==
    [heap |-> Append(h, options), kind |-> "return", obj |-> Len(h) + 1, logs |-> logs]
Raised(h, err) ==
    [heap |-> h, kind |-> "throw", error |-> err, obj |-> 0, logs |-> <<>>]

\* getTypescriptConfig overriding rootDir only where it warns
getTypescriptConfigGatedOverride(h, cwd, cfg, logger) ==
    IF cfg.kind = "missing" THEN Returned(h, makeDefaultTypescriptConfig, <<>>)
    ELSE IF cfg.kind = "badjson" THEN Raised(h, "ConfigParseError")
    ELSE IF cfg.kind = "invalid" THEN Raised(h, "ConfigValidationError")
    ELSE LET options == ParsedOptions(cfg)
             warn == options.rootDir # Unset /\ Resolve(options.rootDir) # Resolve(cwd) /\ logger
         IN  Returned(h, IF warn THEN [options EXCEPT !.rootDir = cwd] ELSE options,
                      (IF logger THEN <<UsingLocal>> ELSE <<>>)
                          \o (IF warn THEN <<RootDirWarning>> ELSE <<>>))

\* getTypescriptConfig keeping one default object and returning it again
getTypescriptConfigCached(h, cwd, cfg, logger) ==
    IF cfg.kind = "missing"
    THEN IF h = <<>> THEN Returned(h, makeDefaultTypescriptConfig, <<>>)
         ELSE [heap |-> h, kind |-> "return", obj |-> 1, logs |-> <<>>]
    ELSE IF cfg.kind = "badjson" THEN Raised(h, "ConfigParseError")
    ELSE IF cfg.kind = "invalid" THEN Raised(h, "ConfigValidationError")
    ELSE LET options == ParsedOptions(cfg)
             warn == options.rootDir # Unset /\ Resolve(options.rootDir) # Resolve(cwd) /\ logger
         IN  Returned(h, [options EXCEPT !.rootDir = cwd],
                      (IF logger THEN <<UsingLocal>> ELSE <<>>)
                          \o (IF warn THEN <<RootDirWarning>> ELSE <<>>))

\* getTypescriptConfig, lines 139-176: h is the heap before the call
getTypescriptConfig(h, cwd, cfg, logger) ==
    IF cfg.kind = "missing" THEN Returned(h, makeDefaultTypescriptConfig, <<>>)
    ELSE IF cfg.kind = "badjson" THEN Raised(h, "ConfigParseError")
    ELSE IF cfg.kind = "invalid" THEN Raised(h, "ConfigValidationError")
    ELSE LET options == ParsedOptions(cfg)
             warn == options.rootDir # Unset /\ Resolve(options.rootDir) # Resolve(cwd) /\ logger
         IN  Returned(h, [options EXCEPT !.rootDir = cwd],
                      (IF logger THEN <<UsingLocal>> ELSE <<>>)
                          \o (IF warn THEN <<RootDirWarning>> ELSE <<>>))

GetTypescriptConfig(cwd, cfg, logger) ==
    /\ Len(heap) < MaxObjs
    /\ LET r == getTypescriptConfig(heap, cwd, cfg, logger) IN
       /\ heap' = r.heap
       /\ last' = [op |-> "getTypescriptConfig", cwd |-> cwd, cfg |-> cfg,
                   logger |-> logger, objsBefore |-> Len(heap), heapBefore |-> heap,
                   result |-> r]
    /\ UNCHANGED <<disk, pkg, functions, res, engine>>

\* the caller changes an attribute of an options object it was given
CallerSets(obj, strict) ==
    /\ obj \in 1..Len(heap)
    /\ heap[obj].strict # strict
    /\ heap' = [heap EXCEPT ![obj].strict = strict]
    /\ last' = [op |-> "callerSets", obj |-> obj]
    /\ UNCHANGED <<disk, pkg, functions, res, engine>>

EngineClean ==
    [pre |-> <<>>, emit |-> <<>>, emitSkipped |-> FALSE,
     emitted |-> << <<"a", ".", "j", "s">> >>, sources |-> <<FileName>>]
EngineSkipped ==
    [pre |-> <<Diag(TRUE, TRUE, 4)>>, emit |-> <<>>, emitSkipped |-> TRUE,
     emitted |-> <<>>, sources |-> <<FileName>>]

InitConfig ==
    /\ disk = {}
    /\ pkg = PkgMissing
    /\ functions = <<>>
    /\ res = [p \in Providers |-> NotCalled]
    /\ heap = <<>>
    /\ engine \in {EngineClean, EngineSkipped}
    /\ last = NotCalled

NextConfig ==
    \/ \E cwd \in Dirs, cfg \in ConfigFiles, logger \in BOOLEAN :
          GetTypescriptConfig(cwd, cfg, logger)
    \/ \E obj \in 1..MaxObjs : Run(obj)
    \/ \E obj \in 1..MaxObjs : GetSourceFiles(obj)
    \/ \E obj \in 1..MaxObjs, strict \in {"true", "false"} : CallerSets(obj, strict)

SpecConfig == InitConfig /\ [][NextConfig]_vars

\* ---- claims about extractFileNames (SpecEntry) ----
HasDot(h) == \E i \in 1..Len(h) : h[i] = "."
Called(p) == res[p] # NotCalled

\* the segment of h after its last '.'
NameOf(h) ==
    LET k == CHOOSE i \in 1..Len(h) : h[i] = "." /\ \A j \in (i + 1)..Len(h) : h[j] # "."
    IN  SubSeq(h, k + 1, Len(h))

\* the prefix of h before the rightmost occurrence of name in h
StemOf(h) ==
    LET name == NameOf(h)
        at == CHOOSE i \in 0..Len(h) :
                /\ i + Len(name) <= Len(h)
                /\ SubSeq(h, i + 1, i + Len(name)) = name
                /\ \A j \in (i + 1)..(Len(h) - Len(name)) :
                      SubSeq(h, j + 1, j + Len(name)) # name
    IN  SubSeq(h, 1, at)

HasEntry(h) == (StemOf(h) \o Ts) \in disk \/ (StemOf(h) \o Js) \in disk
EntryOf(h) == IF (StemOf(h) \o Ts) \in disk THEN StemOf(h) \o Ts ELSE StemOf(h) \o Js

\* the outcome the stem rule gives for a mapping whose handlers all have a '.'
StemRuleHolds(failure) ==
    /\ \A i \in 1..Len(functions) :
          LET stem == StemOf(functions[i]) IN stem # <<>> /\ stem[Len(stem)] = "."
    /\ IF \A i \in 1..Len(functions) : HasEntry(functions[i])
       THEN /\ res["aws"].kind = "return"
            /\ res["aws"].value = [i \in 1..Len(functions) |-> EntryOf(functions[i])]
       ELSE /\ res["aws"].kind = "throw"
            /\ res["aws"].error \in failure

\* C1: a handler with no '.' at all makes resolution fail with
\* HandlerNameUnresolvable, whatever the disk holds: never HandlerFileMissing,
\* never a path.
C1_NoDotIsNameUnresolvable ==
    (Called("aws") /\ functions # <<>> /\ ~HasDot(functions[1]))
        => (res["aws"].kind = "throw" /\ res["aws"].error = "HandlerNameUnresolvable")

\* C7: with target "google" and no package.json, the outcome (list and order,
\* or failure) is the one a non-google target gets for the same cwd and mapping.
C7_GoogleNoManifestIsGeneric ==
    (pkg.kind = "missing" /\ Called("google") /\ Called("aws"))
        => res["google"] = res["aws"]

C7_Witness ==
    /\ pkg.kind = "missing" /\ Called("google") /\ Called("aws")
    /\ Len(functions) = 2
    /\ res["google"].kind = "return"
    /\ res["google"].value[1] # res["google"].value[2]

\* C8 as stated: for every handler containing a '.', the name is the last
\* segment, the stem is the prefix before the rightmost occurrence of the name
\* and keeps its trailing '.', and the entry point is <stem>ts if it exists,
\* else <stem>js if it exists, else resolution fails.
C8_Original ==
    (Called("aws") /\ \A i \in 1..Len(functions) : HasDot(functions[i]))
        => StemRuleHolds({"HandlerFileMissing", "HandlerNameUnresolvable"})

\* C8 amended: the same, for handlers whose segment after the last '.' is
\* not empty; the failure is the handler-file-missing one.
C8_StemRule ==
    (Called("aws") /\ \A i \in 1..Len(functions) :
                         HasDot(functions[i]) /\ NameOf(functions[i]) # <<>>)
        => StemRuleHolds({"HandlerFileMissing"})

C8_Witness ==
    /\ Called("aws")
    /\ functions = << <<"h", ".", "h">>, <<"a", ".", "b", ".", "h">> >>
    /\ res["aws"].kind = "return"
    /\ res["aws"].value = << <<"h", ".", "t", "s">>, <<"a", ".", "b", ".", "t", "s">> >>

\* the manifest's main with a trailing ".js" rewritten to ".ts"
RewrittenMain ==
    LET n == Len(pkg.main) IN
    IF n >= 3 /\ pkg.main[n - 2] = "." /\ pkg.main[n - 1] = "j" /\ pkg.main[n] = "s"
    THEN [i \in 1..n |-> IF i = n - 1 THEN "t" ELSE pkg.main[i]]
    ELSE pkg.main

\* the google outcome for entry point m: [m] if <cwd>/m exists (for m = "" the
\* joined path is cwd itself), else the failure
GoogleOutcomeIs(m) ==
    IF m = <<>> \/ m \in disk
    THEN res["google"].kind = "return" /\ res["google"].value = <<m>>
    ELSE res["google"].kind = "throw" /\ res["google"].error = "ManifestEntrypointMissing"

\* C6 as stated: with target "google" and a package.json, the result is [m],
\* m the main field with a trailing ".js" rewritten to ".ts", or "index.ts"
\* when main is absent, if <cwd>/m exists, and a failure if not, for every
\* handler mapping.
C6_Original ==
    (pkg.kind = "object" /\ Called("google"))
        => GoogleOutcomeIs(IF pkg.hasMain THEN RewrittenMain ELSE IndexTs)

\* C6 amended: the same, with m = "index.ts" also when main is the empty
\* string.
C6_ManifestEntry ==
    (pkg.kind = "object" /\ Called("google"))
        => GoogleOutcomeIs(IF pkg.hasMain /\ pkg.main # <<>> THEN RewrittenMain ELSE IndexTs)

C6_Witness ==
    /\ pkg = PkgWith(<<"a", ".", "j", "s">>)
    /\ Called("google") /\ Called("aws")
    /\ res["google"].kind = "return"
    /\ res["google"].value = << <<"a", ".", "t", "s">> >>
    /\ res["aws"].kind = "throw"

\* ---- claims about run (SpecRun) ----
RunDone == last # NotCalled /\ last.op = "run"

AllDiagnostics == engine.pre \o engine.emit

\* the line "<file> (<line>,<col>): <message>" for a diagnostic at offset
\* start of FileName, whose first line holds the offsets 0..2 and whose second
\* line starts at offset 3
LineFor(d) ==
    [file |-> FileName,
     line |-> IF d.start < 3 THEN 1 ELSE 2,
     col |-> IF d.start < 3 THEN d.start + 1 ELSE d.start - 2,
     message |-> d.messageText]

\* a path ends in ".js"
EndsInDotJs(f) ==
    Len(f) >= 3 /\ f[Len(f) - 2] = "." /\ f[Len(f) - 1] = "j" /\ f[Len(f)] = "s"

HasFileAndStart(d) == d.hasFile /\ d.hasStart
HasFileAndTruthyStart(d) == d.hasFile /\ d.hasStart /\ d.start > 0

LinesFor(ds) == [i \in 1..Len(ds) |-> LineFor(ds[i])]

\* C2: every diagnostic with a file and a start offset (offset 0 included) is
\* printed once, as file (line,col): message, 1-based, pre-emit diagnostics
\* first and then emit-time ones, in engine order; the others are not printed.
C2_PrintsEveryLocatedDiagnostic ==
    RunDone => last.result.console = LinesFor(SelectSeq(AllDiagnostics, HasFileAndStart))

\* C3: run fails with the compilation-failed error exactly when emitSkipped
\* is true, whatever the diagnostics; when it fails, the lines of the
\* diagnostics it prints (a file and an offset past 0; offset 0 is the case
\* of C2) have all been printed before the failure is raised; with
\* diagnostics and emitSkipped false it returns the emitted .js files.
C3_FailsIffEmitSkipped ==
    RunDone =>
        LET r == last.result
            lines == LinesFor(SelectSeq(AllDiagnostics, HasFileAndTruthyStart))
            logs == [i \in 1..Len(lines) |-> LogEvent(lines[i])]
        IN  /\ (r.kind = "throw") <=> engine.emitSkipped
            /\ r.kind = "throw" =>
                  /\ r.error = "CompilationFailedError"
                  /\ r.trace = logs \o <<ThrowEvent>>
            /\ r.kind = "return" =>
                  /\ r.trace = logs \o <<ReturnEvent>>
                  /\ r.value.defined
                  /\ r.value.files = SelectSeq(engine.emitted, EndsInDotJs)

C3_Witness ==
    /\ RunDone
    /\ engine.emitSkipped
    /\ last.result.kind = "throw"
    /\ Len(last.result.trace) = 3
    /\ last.result.trace[1] # last.result.trace[2]

IsJsSubsequence(files) ==
    /\ files = SelectSeq(engine.emitted, EndsInDotJs)
    /\ \A i \in 1..Len(files) :
          /\ ~EndsWith(files[i], <<".", "m", "a", "p">>)
          /\ ~EndsWith(files[i], <<".", "d", ".", "t", "s">>)

\* C9 as stated: when emission is not skipped, run returns a non-empty list,
\* the order-preserving sub-sequence of the engine's emitted-file list of the
\* paths ending in ".js": no .js.map or .d.ts path, no .js path dropped.
C9_Original ==
    (RunDone /\ ~engine.emitSkipped) =>
        /\ last.result.kind = "return"
        /\ last.result.value.defined
        /\ last.result.value.files # <<>>
        /\ IsJsSubsequence(last.result.value.files)

\* C9 amended: the same list, which is empty exactly when the engine
\* reported no path ending in ".js".
C9_JsSubsequence ==
    (RunDone /\ ~engine.emitSkipped) =>
        /\ last.result.kind = "return"
        /\ last.result.value.defined
        /\ IsJsSubsequence(last.result.value.files)
        /\ (last.result.value.files = <<>>)
              <=> (\A i \in 1..Len(engine.emitted) : ~EndsInDotJs(engine.emitted[i]))

C9_Witness ==
    /\ RunDone /\ ~engine.emitSkipped
    /\ engine.emitted = << <<"a", ".", "j", "s", ".", "m", "a", "p">>, <<"a", ".", "j", "s">> >>
    /\ last.result.value.files = << <<"a", ".", "j", "s">> >>

\* C10: run never mutates the options object it is given: every attribute has
\* the same value after the call as before it, whether run returns or fails.
C10_RunLeavesOptionsAlone ==
    RunDone => heap[last.obj] = last.before

\* ---- claims about getTypescriptConfig (SpecConfig) ----
ConfigDone == last # NotCalled /\ last.op = "getTypescriptConfig"

\* C4: for a config file that exists, parses and validates, the returned
\* options have rootDir = the cwd passed in, whatever rootDir the file gave
\* and with or without a logger.
C4_RootDirIsCwd ==
    (ConfigDone /\ last.cfg.kind = "valid") =>
        /\ last.result.kind = "return"
        /\ heap[last.result.obj].rootDir = last.cwd

C4_Witness ==
    /\ ConfigDone
    /\ last.cfg = CfgValid("/other")
    /\ last.cwd = "./"
    /\ ~last.logger
    /\ heap[last.result.obj].rootDir = "./"

\* C5: after any earlier calls and changes to objects returned earlier, a
\* call with no config file raises nothing, logs nothing and returns the
\* default option set (rootDir "./", CommonJS, ES5, strict, no
\* listEmittedFiles) in an object of its own, no object returned before.
C5_MissingConfigGivesFreshDefault ==
    (ConfigDone /\ last.cfg.kind = "missing") =>
        LET r == last.result IN
        /\ r.kind = "return"
        /\ r.logs = <<>>
        /\ r.obj \notin 1..last.objsBefore
        /\ r.obj \in 1..Len(heap)
        /\ heap[r.obj].rootDir = "./"
        /\ heap[r.obj].module = "CommonJS"
        /\ heap[r.obj].target = "ES5"
        /\ heap[r.obj].strict = "true"
        /\ heap[r.obj].listEmittedFiles = Unset
        /\ \A i \in 1..last.objsBefore : heap[i] = last.heapBefore[i]

C5_Witness ==
    /\ ConfigDone /\ last.cfg.kind = "missing"
    /\ last.result.obj = 2
    /\ heap[1].listEmittedFiles = "true"
    /\ heap[1].strict = "false"
    /\ heap[1].rootDir = "./"
    /\ heap[2].listEmittedFiles = Unset

====
